---- MODULE Spec2Model ----
(***************************************************************************)
(* A model of console_error_scraper.py: the ConsoleErrorScraper object,    *)
(* its run() workflow (load_env_file, setup_browser,                       *)
(* navigate_and_capture_errors, save_errors_to_json, cleanup), the two     *)
(* observers the browser engine calls back, and the string functions that  *)
(* normalise the target URL and derive the output file's domain.           *)
(*                                                                         *)
(* Strings are sequences of one-character strings, so that startswith,     *)
(* replace and the netloc split are computed as Python computes them.      *)
(***************************************************************************)
EXTENDS Integers, Sequences, FiniteSets, TLC

VARIABLES
    pc,             \* position of run() in the script
    env,            \* the .env configuration source
    site_url,       \* self.site_url (<<>> models None / empty, both falsy)
    res,            \* engine, browser, context, page: "none" | "open" | "closed"
    released,       \* how many times each resource went from open to closed
    listeners,      \* whether page.on("console") / page.on("pageerror") are registered
    delivered,      \* history: the messages the engine delivered to the observers
    console_errors, \* self.console_errors
    gdpr_present,   \* self.gdpr_present
    sel,            \* index of the candidate selector the resolver is at
    examined,       \* history: the candidates whose visibility was checked
    clicks,         \* history: successful clicks
    resolver,       \* return value of find_and_click_accept_button: "none"|"true"|"false"
    navExc,         \* history: description of the exception navigate caught
    fs,             \* the output directory and file
    fs0,            \* history: fs at the start of the run
    writes,         \* history: number of completed json.dump calls
    domain,         \* the domain local of save_errors_to_json
    saveReached,    \* history: Len(console_errors) when save_errors_to_json was entered, -1 before
    caught,         \* history: exception caught by run()'s except clause
    raised          \* whether an exception escaped run()

vars == << pc, env, site_url, res, released, listeners, delivered,
           console_errors, gdpr_present, sel, examined, clicks,
           resolver, navExc, fs, fs0, writes, domain, saveReached, caught, raised >>

----------------------------------------------------------------------------
(* Bounds of the model *)

\* messages the engine delivers to the observers in one run
MaxDelivered == 4
\* candidate selectors tried by the resolver (the script lists 28)
NumSelectors == 2
\* fragments a configured SITE_URL value is assembled from (SpecUrl)
MaxParts == 4

----------------------------------------------------------------------------
(* Strings *)

HTTP  == << "h", "t", "t", "p", ":", "/", "/" >>
HTTPS == << "h", "t", "t", "p", "s", ":", "/", "/" >>
WWW   == << "w", "w", "w", "." >>

Whitespace == { " " }

StartsWith(s, p) == Len(s) >= Len(p) /\ SubSeq(s, 1, Len(p)) = p

\* str.replace(old, new): non-overlapping occurrences, left to right
RECURSIVE Replace(_, _, _)
Replace(s, old, new) ==
    IF Len(s) < Len(old) THEN s
    ELSE IF SubSeq(s, 1, Len(old)) = old
         THEN new \o Replace(SubSeq(s, Len(old) + 1, Len(s)), old, new)
         ELSE << s[1] >> \o Replace(Tail(s), old, new)

\* str.strip()
RECURSIVE LStrip(_)
LStrip(s) == IF s # << >> /\ s[1] \in Whitespace THEN LStrip(Tail(s)) ELSE s

RECURSIVE RStrip(_)
RStrip(s) ==
    IF s # << >> /\ s[Len(s)] \in Whitespace
    THEN RStrip(SubSeq(s, 1, Len(s) - 1)) ELSE s

Strip(s) == RStrip(LStrip(s))

\* index of the first element of s that is in cs, Len(s) + 1 when there is none
RECURSIVE FindAny(_, _, _)
FindAny(s, cs, i) ==
    IF i > Len(s) THEN Len(s) + 1
    ELSE IF s[i] \in cs THEN i ELSE FindAny(s, cs, i + 1)

----------------------------------------------------------------------------
(* load_env_file: the value read and its normalisation *)

\* lines 22-32: the value of the SITE_URL key, stripped; <<>> when the key is absent
ReadSiteUrl(e) == IF e.present /\ e.haskey THEN Strip(e.value) ELSE << >>

\* a loader that forgets the check of line 34
SiteUrlNeverMissing(url) == FALSE

\* line 34: `if not self.site_url`
SiteUrlMissing(url) == url = << >>

\* line 38: startswith(('http://', 'https://'))
HasProtocol(url) == StartsWith(url, HTTP) \/ StartsWith(url, HTTPS)

\* a loader that tests for 'https://' alone
NormaliseUrlHttpsOnly(url) == IF StartsWith(url, HTTPS) THEN url ELSE HTTPS \o url

\* lines 38-39
NormaliseUrl(url) == IF HasProtocol(url) THEN url ELSE HTTPS \o url

----------------------------------------------------------------------------
(* save_errors_to_json: the domain *)

SchemeChars == { "h", "t", "p", "s", "w", "a", "8", ".", "+", "-" }
Letters     == { "h", "t", "p", "s", "w", "a" }

\* urlparse: the text after the scheme's colon (the URL itself without a scheme)
AfterScheme(url) ==
    LET i == FindAny(url, { ":" }, 1)
    IN  IF /\ i > 1 /\ i <= Len(url)
           /\ url[1] \in Letters
           /\ \A k \in 1..(i - 1) : url[k] \in SchemeChars
        THEN SubSeq(url, i + 1, Len(url))
        ELSE url

\* urlparse(url).netloc: between "//" and the first of "/", "?", "#"
Netloc(url) ==
    LET rest == AfterScheme(url)
    IN  IF StartsWith(rest, << "/", "/" >>)
        THEN SubSeq(rest, 3, FindAny(rest, { "/", "?", "#" }, 3) - 1)
        ELSE << >>

\* lines 226 and 229
FallbackDomain(url) ==
    Replace(Replace(Replace(Replace(Replace(url,
        HTTPS, << >>), HTTP, << >>), WWW, << >>), << "/" >>, << "_" >>),
        << ":" >>, << "_" >>)

\* line 224
NetlocDomain(url) == Replace(Replace(Netloc(url), WWW, << >>), << ":" >>, << "_" >>)

\* lines 222-229
DeriveDomain(url) ==
    IF NetlocDomain(url) = << >> THEN FallbackDomain(url) ELSE NetlocDomain(url)

----------------------------------------------------------------------------
(* The run: state after ConsoleErrorScraper() and the environment it meets *)

Resources == { "engine", "browser", "context", "page" }

\* msg.type of a console message; "log" stands for every type but error and warning
Severities == { "error", "warning", "log" }

\* positions at which run() is inside a call of the engine's synchronous API, which
\* is when the engine dispatches pending page events to the registered observers
EngineCallPcs ==
    { "goto", "is_visible", "click", "wait_idle", "scroll_down", "scroll_up",
      "close_page" }

\* SITE_URL=www.a:8
Str_wwwa8 == WWW \o << "a", ":", "8" >>

\* the .env file: absent, without the key, with an empty or blank value, with a value
EnvSources ==
    { [present |-> FALSE, haskey |-> FALSE, value |-> << >>],
      [present |-> TRUE,  haskey |-> FALSE, value |-> << >>],
      [present |-> TRUE,  haskey |-> TRUE,  value |-> << >>],
      [present |-> TRUE,  haskey |-> TRUE,  value |-> << " " >>],
      [present |-> TRUE,  haskey |-> TRUE,  value |-> Str_wwwa8] }

\* console_error/site_url and <domain>.json before the run
InitialFs ==
    { [dir |-> FALSE, file |-> "absent", name |-> << >>, data |-> << >>],
      [dir |-> TRUE,  file |-> "stale",  name |-> << >>, data |-> << >>] }

\* lines 11-17
InitObject ==
    /\ site_url = << >>
    /\ res = [r \in Resources |-> "none"]
    /\ released = [r \in Resources |-> 0]
    /\ listeners = FALSE
    /\ delivered = << >>
    /\ console_errors = << >>
    /\ gdpr_present = FALSE
    /\ sel = 0
    /\ examined = << >>
    /\ clicks = 0
    /\ resolver = "none"
    /\ navExc = "none"
    /\ writes = 0
    /\ domain = << >>
    /\ saveReached = -1
    /\ caught = "none"
    /\ raised = FALSE

Init ==
    /\ pc = "load_env"
    /\ env \in EnvSources
    /\ fs \in InitialFs
    /\ fs0 = fs
    /\ InitObject

----------------------------------------------------------------------------
(* load_env_file *)

\* lines 22-23: no .env file
LoadEnvAbsent ==
    /\ pc = "load_env"
    /\ ~env.present
    /\ caught' = "FileNotFoundError"
    /\ pc' = "close_page"
    /\ UNCHANGED << env, site_url, res, released, listeners, delivered,
                    console_errors, gdpr_present, sel, examined, clicks, resolver, navExc, fs, fs0, writes, domain,
                    saveReached, raised >>

\* lines 25-35: the key is missing or its value empty
LoadEnvMissing ==
    /\ pc = "load_env"
    /\ env.present
    /\ SiteUrlMissing(ReadSiteUrl(env))
    /\ site_url' = ReadSiteUrl(env)
    /\ caught' = "ValueError"
    /\ pc' = "close_page"
    /\ UNCHANGED << env, res, released, listeners, delivered, console_errors,
                    gdpr_present, sel, examined, clicks, resolver,
                    navExc, fs, fs0, writes, domain, saveReached, raised >>

\* lines 25-42
LoadEnvOk ==
    /\ pc = "load_env"
    /\ env.present
    /\ ~SiteUrlMissing(ReadSiteUrl(env))
    /\ site_url' = NormaliseUrl(ReadSiteUrl(env))
    /\ pc' = "start_engine"
    /\ UNCHANGED << env, res, released, listeners, delivered, console_errors,
                    gdpr_present, sel, examined, clicks, resolver,
                    navExc, fs, fs0, writes, domain, saveReached, caught, raised >>

----------------------------------------------------------------------------
(* setup_browser *)

SetupUnchanged ==
    UNCHANGED << env, site_url, released, delivered, console_errors,
                 gdpr_present, sel, examined, clicks, resolver,
                 navExc, fs, fs0, writes, domain, saveReached, raised >>

\* a call of setup_browser raises: run()'s except clause, then cleanup
SetupRaises(at, what) ==
    /\ pc = at
    /\ caught' = what
    /\ pc' = "close_page"
    /\ UNCHANGED << res, listeners >>
    /\ SetupUnchanged

\* lines 46-47
StartEngine ==
    /\ pc = "start_engine"
    /\ res' = [res EXCEPT !["engine"] = "open"]
    /\ pc' = "launch"
    /\ UNCHANGED << listeners, caught >>
    /\ SetupUnchanged

StartEngineRaises == SetupRaises("start_engine", "start failed")

\* lines 50-58
LaunchBrowser ==
    /\ pc = "launch"
    /\ res' = [res EXCEPT !["browser"] = "open"]
    /\ pc' = "new_context"
    /\ UNCHANGED << listeners, caught >>
    /\ SetupUnchanged

LaunchBrowserRaises == SetupRaises("launch", "launch failed")

\* lines 61-63
NewContext ==
    /\ pc = "new_context"
    /\ res' = [res EXCEPT !["context"] = "open"]
    /\ pc' = "new_page"
    /\ UNCHANGED << listeners, caught >>
    /\ SetupUnchanged

NewContextRaises == SetupRaises("new_context", "new_context failed")

\* lines 66-72: the page, then the two observers
NewPage ==
    /\ pc = "new_page"
    /\ res' = [res EXCEPT !["page"] = "open"]
    /\ listeners' = TRUE
    /\ pc' = "goto"
    /\ UNCHANGED caught
    /\ SetupUnchanged

NewPageRaises == SetupRaises("new_page", "new_page failed")

----------------------------------------------------------------------------
(* The observers: handle_console_message and handle_page_error *)

\* the engine delivers events only to registered observers of an open page, while
\* run() is inside one of its calls
CanDeliver ==
    /\ listeners
    /\ res["page"] = "open"
    /\ pc \in EngineCallPcs
    /\ Len(delivered) < MaxDelivered

\* the text of the n-th delivered message
MsgText(n) == << "msg", ToString(n) >>

\* an observer that keeps every console message
CapturedAnyType(type) == type \in { "error", "warning", "log" }

\* line 76
Captured(type) == type \in { "error", "warning" }

\* lines 77-83
ConsoleEvent(type, text) == [type |-> type, text |-> text, location |-> "loc"]

\* lines 89-95
PageErrorEvent(text) == [type |-> "page_error", text |-> text, location |-> "None"]

ObserverUnchanged ==
    UNCHANGED << pc, env, site_url, res, released, listeners, gdpr_present, sel,
                 examined, clicks, resolver, navExc, fs, fs0, writes,
                 domain, saveReached, caught, raised >>

\* lines 74-85
handle_console_message ==
    /\ CanDeliver
    /\ \E type \in Severities :
        LET text == MsgText(Len(delivered) + 1)
        IN  /\ delivered' = Append(delivered,
                    [kind |-> "console", type |-> type, text |-> text])
            /\ console_errors' =
                    IF Captured(type)
                    THEN Append(console_errors, ConsoleEvent(type, text))
                    ELSE console_errors
    /\ ObserverUnchanged

\* lines 87-97
handle_page_error ==
    /\ CanDeliver
    /\ LET text == MsgText(Len(delivered) + 1)
       IN  /\ delivered' = Append(delivered,
                    [kind |-> "pageerror", type |-> "exception", text |-> text])
           /\ console_errors' = Append(console_errors, PageErrorEvent(text))
    /\ ObserverUnchanged

----------------------------------------------------------------------------
(* navigate_and_capture_errors and find_and_click_accept_button *)

NavUnchanged ==
    UNCHANGED << env, site_url, res, released, listeners, delivered, fs, fs0,
                 writes, domain, saveReached, caught, raised >>

\* lines 205-211
NavigationErrorEvent(desc) ==
    [type |-> "navigation_error", text |-> << "Navigation error: ", desc >>,
     location |-> "None"]

\* a driver without its except clause: the exception reaches run()
NavRaisesEscapes(at, desc) ==
    /\ pc = at
    /\ navExc' = desc
    /\ caught' = desc
    /\ pc' = "close_page"
    /\ UNCHANGED << console_errors, gdpr_present, sel, examined, clicks, resolver >>
    /\ UNCHANGED << env, site_url, res, released, listeners, delivered, fs, fs0,
                    writes, domain, saveReached, raised >>

\* lines 204-213: the except clause of navigate_and_capture_errors
NavRaises(at, desc) ==
    /\ pc = at
    /\ console_errors' = Append(console_errors, NavigationErrorEvent(desc))
    /\ navExc' = desc
    /\ pc' = "save"
    /\ UNCHANGED << gdpr_present, sel, examined, clicks, resolver >>
    /\ NavUnchanged

\* a step of the driver completes
NavStep(at, to) ==
    /\ pc = at
    /\ pc' = to
    /\ UNCHANGED << console_errors, navExc, gdpr_present, sel, examined, clicks, resolver >>
    /\ NavUnchanged

\* lines 178-184: goto, the settle delay, the resolver starts at the first candidate
Goto ==
    /\ pc = "goto"
    /\ pc' = "is_visible"
    /\ sel' = 1
    /\ UNCHANGED << console_errors, navExc, gdpr_present, examined, clicks, resolver >>
    /\ NavUnchanged

GotoRaises == NavRaises("goto", "goto timeout")

\* lines 148, 165-170: the loop goes to the next candidate, or returns False
NextCandidate ==
    IF sel < NumSelectors
    THEN /\ sel' = sel + 1
         /\ pc' = "is_visible"
         /\ UNCHANGED resolver
    ELSE /\ resolver' = "false"
         /\ pc' = "wait_idle"
         /\ UNCHANGED sel

\* line 158: is_visible returns False
IsVisibleFalse ==
    /\ pc = "is_visible"
    /\ examined' = Append(examined, sel)
    /\ NextCandidate
    /\ UNCHANGED << console_errors, navExc, gdpr_present, clicks >>
    /\ NavUnchanged

\* lines 158, 165-167: is_visible raises
IsVisibleRaises ==
    /\ pc = "is_visible"
    /\ examined' = Append(examined, sel)
    /\ NextCandidate
    /\ UNCHANGED << console_errors, navExc, gdpr_present, clicks >>
    /\ NavUnchanged

\* lines 158-159: is_visible returns True
IsVisibleTrue ==
    /\ pc = "is_visible"
    /\ examined' = Append(examined, sel)
    /\ pc' = "click"
    /\ UNCHANGED << console_errors, navExc, gdpr_present, sel, clicks, resolver >>
    /\ NavUnchanged

\* a resolver that sets the flag before the click
ClickRaisesFlagFirst ==
    /\ pc = "click"
    /\ gdpr_present' = TRUE
    /\ NextCandidate
    /\ UNCHANGED << console_errors, navExc, examined, clicks >>
    /\ NavUnchanged

\* lines 160, 165-167: click raises
ClickRaises ==
    /\ pc = "click"
    /\ NextCandidate
    /\ UNCHANGED << console_errors, navExc, gdpr_present, examined, clicks >>
    /\ NavUnchanged

\* a resolver without the return of line 164: the loop goes on after a click
ClickSucceedsNoReturn ==
    /\ pc = "click"
    /\ clicks' = clicks + 1
    /\ gdpr_present' = TRUE
    /\ IF sel < NumSelectors
       THEN /\ sel' = sel + 1
            /\ pc' = "is_visible"
            /\ UNCHANGED resolver
       ELSE /\ resolver' = "true"
            /\ pc' = "wait_idle"
            /\ UNCHANGED sel
    /\ UNCHANGED << console_errors, navExc, examined >>
    /\ NavUnchanged

\* lines 160-164: click succeeds, the flag is set, the resolver returns True
ClickSucceeds ==
    /\ pc = "click"
    /\ clicks' = clicks + 1
    /\ gdpr_present' = TRUE
    /\ resolver' = "true"
    /\ pc' = "wait_idle"
    /\ UNCHANGED << console_errors, navExc, sel, examined >>
    /\ NavUnchanged

\* lines 188-191
WaitIdle == NavStep("wait_idle", "scroll_down")
WaitIdleRaises == NavRaises("wait_idle", "networkidle timeout")

\* lines 195-196
ScrollDown == NavStep("scroll_down", "scroll_up")
ScrollDownRaises == NavRaises("scroll_down", "evaluate failed")

\* lines 199-202
ScrollUp == NavStep("scroll_up", "save")
ScrollUpRaises == NavRaises("scroll_up", "evaluate failed")

----------------------------------------------------------------------------
(* save_errors_to_json *)

SaveUnchanged ==
    UNCHANGED << env, site_url, res, released, listeners, delivered,
                 console_errors, gdpr_present, sel, examined, clicks,
                 resolver, navExc, fs0, raised >>

\* a persister without the early return of lines 217-219
SaveNeverSkips(errors) == FALSE

\* line 217: `if not self.console_errors`
SaveSkips(errors) == errors = << >>

\* line 236
JsonFilename(dom) == dom \o << ".", "j", "s", "o", "n" >>

\* a persister that counts only the observers' events
OutputDataObservedCount(url, dom, flag, errors) ==
    [site_url     |-> url,
     domain       |-> dom,
     GDPR_PRESENT |-> IF flag THEN "TRUE" ELSE "FALSE",
     total_errors |-> Cardinality({ i \in DOMAIN errors :
                                      errors[i].type # "navigation_error" }),
     errors       |-> errors]

\* lines 240-247
OutputData(url, dom, flag, errors) ==
    [site_url     |-> url,
     domain       |-> dom,
     GDPR_PRESENT |-> IF flag THEN "TRUE" ELSE "FALSE",
     total_errors |-> Len(errors),
     errors       |-> errors]

\* lines 217-219: nothing captured, return
SaveSkip ==
    /\ pc = "save"
    /\ SaveSkips(console_errors)
    /\ saveReached' = Len(console_errors)
    /\ pc' = "close_page"
    /\ UNCHANGED << fs, writes, domain, caught >>
    /\ SaveUnchanged

\* lines 222-233: the domain is derived, mkdir raises
SaveMkdirRaises ==
    /\ pc = "save"
    /\ ~SaveSkips(console_errors)
    /\ saveReached' = Len(console_errors)
    /\ domain' = DeriveDomain(site_url)
    /\ caught' = "OSError"
    /\ pc' = "close_page"
    /\ UNCHANGED << fs, writes >>
    /\ SaveUnchanged

\* lines 222-250: the directory exists, open(json_filepath, 'w') raises
SaveOpenRaises ==
    /\ pc = "save"
    /\ ~SaveSkips(console_errors)
    /\ saveReached' = Len(console_errors)
    /\ domain' = DeriveDomain(site_url)
    /\ fs' = [fs EXCEPT !.dir = TRUE]
    /\ caught' = "OSError"
    /\ pc' = "close_page"
    /\ UNCHANGED writes
    /\ SaveUnchanged

\* lines 222-251: the file is created or truncated, json.dump raises part-way
SaveDumpRaises ==
    /\ pc = "save"
    /\ ~SaveSkips(console_errors)
    /\ saveReached' = Len(console_errors)
    /\ domain' = DeriveDomain(site_url)
    /\ fs' = [dir |-> TRUE, file |-> "partial",
              name |-> JsonFilename(domain'), data |-> << >>]
    /\ caught' = "OSError"
    /\ pc' = "close_page"
    /\ UNCHANGED writes
    /\ SaveUnchanged

\* lines 222-265: the document is written
SaveOk ==
    /\ pc = "save"
    /\ ~SaveSkips(console_errors)
    /\ saveReached' = Len(console_errors)
    /\ domain' = DeriveDomain(site_url)
    /\ fs' = [dir |-> TRUE, file |-> "written",
              name |-> JsonFilename(domain'),
              data |-> << OutputData(site_url, domain', gdpr_present,
                                     console_errors) >>]
    /\ writes' = writes + 1
    /\ pc' = "close_page"
    /\ UNCHANGED caught
    /\ SaveUnchanged

----------------------------------------------------------------------------
(* cleanup, reached through run()'s finally clause *)

CleanupUnchanged ==
    UNCHANGED << env, site_url, listeners, delivered, console_errors,
                 gdpr_present, sel, examined, clicks, resolver,
                 navExc, fs, fs0, writes, domain, saveReached, caught >>

\* the resources of rs that are open become closed, each counted as one release
Release(rs) ==
    /\ res' = [r \in Resources |->
                 IF r \in rs /\ res[r] = "open" THEN "closed" ELSE res[r]]
    /\ released' = [r \in Resources |->
                 IF r \in rs /\ res[r] = "open" THEN released[r] + 1
                 ELSE released[r]]

\* a close call raises: cleanup is left, the exception escapes run()
CleanupRaises(at, r) ==
    /\ pc = at
    /\ res[r] # "none"
    /\ raised' = TRUE
    /\ pc' = "done"
    /\ UNCHANGED << res, released >>
    /\ CleanupUnchanged

\* lines 269-270
ClosePage ==
    /\ pc = "close_page"
    /\ IF res["page"] # "none" THEN Release({ "page" })
                               ELSE UNCHANGED << res, released >>
    /\ pc' = "close_browser"
    /\ UNCHANGED raised
    /\ CleanupUnchanged

ClosePageRaises == CleanupRaises("close_page", "page")

\* lines 271-272: closing the browser closes its contexts and their pages
CloseBrowser ==
    /\ pc = "close_browser"
    /\ IF res["browser"] # "none" THEN Release({ "browser", "context", "page" })
                                  ELSE UNCHANGED << res, released >>
    /\ pc' = "stop_engine"
    /\ UNCHANGED raised
    /\ CleanupUnchanged

CloseBrowserRaises == CleanupRaises("close_browser", "browser")

\* lines 273-275: the last statement of cleanup; a failure of stop() would skip no
\* other release, and the model takes the call to complete
StopEngine ==
    /\ pc = "stop_engine"
    /\ IF res["engine"] # "none" THEN Release({ "engine" })
                                 ELSE UNCHANGED << res, released >>
    /\ pc' = "done"
    /\ UNCHANGED raised
    /\ CleanupUnchanged

----------------------------------------------------------------------------
(* run(): lines 277-298 *)

Next ==
    \/ LoadEnvAbsent \/ LoadEnvMissing \/ LoadEnvOk
    \/ StartEngine \/ StartEngineRaises
    \/ LaunchBrowser \/ LaunchBrowserRaises
    \/ NewContext \/ NewContextRaises
    \/ NewPage \/ NewPageRaises
    \/ handle_console_message \/ handle_page_error
    \/ Goto \/ GotoRaises
    \/ IsVisibleFalse \/ IsVisibleRaises \/ IsVisibleTrue
    \/ ClickRaises \/ ClickSucceeds
    \/ WaitIdle \/ WaitIdleRaises
    \/ ScrollDown \/ ScrollDownRaises
    \/ ScrollUp \/ ScrollUpRaises
    \/ SaveSkip \/ SaveMkdirRaises \/ SaveOpenRaises \/ SaveDumpRaises
    \/ SaveOk
    \/ ClosePage \/ ClosePageRaises
    \/ CloseBrowser \/ CloseBrowserRaises
    \/ StopEngine

Spec == Init /\ [][Next]_vars

----------------------------------------------------------------------------
(* The URL functions on their own: load_env_file, then the domain derivation *)
(* of save_errors_to_json, over every value assembled from the fragments     *)

Fragments == { HTTPS, HTTP, WWW, << "a" >>, << ":" >>, << "/" >>, << " " >> }

RECURSIVE Concat(_)
Concat(parts) == IF parts = << >> THEN << >> ELSE Head(parts) \o Concat(Tail(parts))

UrlValues ==
    { Concat(p) : p \in UNION { [1..k -> Fragments] : k \in 0..MaxParts } }

InitUrl ==
    /\ pc = "load_env"
    /\ env \in { [present |-> TRUE, haskey |-> TRUE, value |-> v] : v \in UrlValues }
    /\ fs = [dir |-> FALSE, file |-> "absent", name |-> << >>, data |-> << >>]
    /\ fs0 = fs
    /\ InitObject

\* lines 222-229, applied to the URL load_env_file stored
UrlDerive ==
    /\ pc = "start_engine"
    /\ domain' = DeriveDomain(site_url)
    /\ pc' = "url_done"
    /\ UNCHANGED << env, site_url, res, released, listeners, delivered,
                    console_errors, gdpr_present, sel, examined, clicks, resolver,
                    navExc, fs, fs0, writes, saveReached, caught, raised >>

NextUrl == LoadEnvMissing \/ LoadEnvOk \/ UrlDerive

SpecUrl == InitUrl /\ [][NextUrl]_vars

----------------------------------------------------------------------------
(* Properties *)

CleanupPcs == { "close_page", "close_browser", "stop_engine", "done" }

\* the document in the output file
Doc == fs.data[1]

NavEvents(events) ==
    { i \in DOMAIN events : events[i].type = "navigation_error" }

\* the events the observers owe for the delivered messages, in delivery order
RECURSIVE ObservedEvents(_)
ObservedEvents(msgs) ==
    IF msgs = << >> THEN << >>
    ELSE LET m == msgs[Len(msgs)]
             before == ObservedEvents(SubSeq(msgs, 1, Len(msgs) - 1))
         IN  IF m.kind = "pageerror"
             THEN Append(before, [type |-> "page_error", text |-> m.text,
                                  location |-> "None"])
             ELSE IF m.type \in { "error", "warning" }
                  THEN Append(before, [type |-> m.type, text |-> m.text,
                                       location |-> "loc"])
                  ELSE before

IsObserved(e) == e.type # "navigation_error"

TypeCount(events, type) ==
    Cardinality({ i \in DOMAIN events : events[i].type = type })

(* C1: when run() has ended, whatever stage failed, every browser resource that
   was acquired (page, context, browser, engine handle) has been released exactly
   once: none is left open and none was released twice. *)
C1_ReleasedExactlyOnce ==
    pc = "done" =>
        \A r \in Resources :
            /\ res[r] # "open"
            /\ res[r] = "closed" => released[r] = 1
            /\ res[r] = "none" => released[r] = 0

(* C2, as stated: a run that produced at least one event has written exactly one
   output file, <domain>.json, whose total_errors is the length of the event
   sequence. Stated from the moment save_errors_to_json is over: nothing writes
   the file afterwards and the event sequence only grows. *)
C2_FileForEveryEvent ==
    (pc \in CleanupPcs /\ console_errors # << >>) =>
        /\ writes = 1
        /\ fs.file = "written"
        /\ fs.name = JsonFilename(domain)
        /\ Doc.total_errors = Len(console_errors)
        /\ Doc.total_errors = Len(Doc.errors)

(* C2, amended: once save_errors_to_json has been entered with a non-empty event
   sequence and neither its mkdir nor its open raised, exactly one output file has
   been written, <domain>.json, and its total_errors is the number of entries of
   its errors array, which is the event sequence as it was at the save; no run
   writes more than one file. *)
C2_FileWhenSaveSucceeds ==
    /\ writes <= 1
    /\ (fs.file = "written") <=> (writes = 1)
    /\ (saveReached >= 1 /\ caught = "none") =>
          /\ writes = 1
          /\ fs.dir
          /\ fs.name = JsonFilename(domain)
          /\ Doc.domain = domain
          /\ Doc.total_errors = Len(Doc.errors)
          /\ Doc.total_errors = saveReached
          /\ Doc.errors = SubSeq(console_errors, 1, saveReached)

C2_Witness ==
    /\ pc = "done"
    /\ writes = 1
    /\ saveReached >= 1
    /\ Len(console_errors) > saveReached

(* C3: when save_errors_to_json is reached with an empty event sequence, no
   output file is created or overwritten, the output directory is not created and
   the domain is not derived. *)
C3_NothingWrittenWhenEmpty ==
    saveReached = 0 =>
        /\ fs = fs0
        /\ writes = 0
        /\ domain = << >>

C3_Witness ==
    /\ pc = "done"
    /\ saveReached = 0
    /\ navExc = "none"
    /\ delivered # << >>
    /\ fs0.file = "stale"

(* C4, as stated: when a step of navigate_and_capture_errors raised, then once
   save_errors_to_json is over the output file is written and contains exactly one
   navigation_error event. *)
C4_FileAfterNavigationError ==
    (pc \in CleanupPcs /\ navExc # "none") =>
        /\ fs.file = "written"
        /\ Cardinality(NavEvents(Doc.errors)) = 1

(* C4, amended: when a step of navigate_and_capture_errors raises, the exception
   does not reach run(): exactly one navigation_error event, whose text holds the
   exception's description, is in the event sequence, the remaining steps of the
   driver are skipped, save_errors_to_json runs, and, unless its own mkdir or open
   raises, the output file is written with exactly one navigation_error event. *)
C4_NavigationErrorRecorded ==
    navExc # "none" =>
        /\ Cardinality(NavEvents(console_errors)) = 1
        /\ \A i \in NavEvents(console_errors) :
              console_errors[i].text = << "Navigation error: ", navExc >>
        /\ pc \in { "save" } \cup CleanupPcs
        /\ caught \in { "none", "OSError" }
        /\ pc # "save" => saveReached >= 1
        /\ (pc # "save" /\ caught = "none") =>
              /\ fs.file = "written"
              /\ Cardinality(NavEvents(Doc.errors)) = 1
              /\ \A i \in NavEvents(Doc.errors) :
                    Doc.errors[i].text = << "Navigation error: ", navExc >>

C4_Witness ==
    /\ pc = "done"
    /\ navExc = "networkidle timeout"
    /\ fs.file = "written"
    /\ Cardinality(NavEvents(Doc.errors)) = 1

ConfigInvalid == ~env.present \/ ~env.haskey \/ Strip(env.value) = << >>

(* C5: when the .env file is absent, or SITE_URL is missing or empty, the run
   stops with a configuration error before any browser resource is acquired:
   setup_browser, the driver and the persister never run, nothing is written, and
   run() ends without raising. *)
C5_ConfigErrorAbortsEarly ==
    ConfigInvalid =>
        /\ pc \in { "load_env" } \cup CleanupPcs
        /\ pc # "load_env" => caught \in { "FileNotFoundError", "ValueError" }
        /\ \A r \in Resources : res[r] = "none" /\ released[r] = 0
        /\ ~listeners
        /\ delivered = << >>
        /\ console_errors = << >>
        /\ saveReached = -1
        /\ fs = fs0
        /\ writes = 0
        /\ ~raised

C5_Witness ==
    /\ pc = "done"
    /\ ~env.present
    /\ caught = "FileNotFoundError"
    /\ fs0.file = "absent"

(* C6: the consent flag is true exactly when a click of the resolver succeeded,
   also after a later step of the driver raised, and every output file written
   holds GDPR_PRESENT = "TRUE" if a click succeeded and "FALSE" otherwise. *)
C6_FlagIffClicked ==
    /\ gdpr_present <=> (clicks >= 1)
    /\ fs.file = "written" =>
          /\ Doc.GDPR_PRESENT \in { "TRUE", "FALSE" }
          /\ (Doc.GDPR_PRESENT = "TRUE") <=> (clicks >= 1)
          /\ resolver = "false" => Doc.GDPR_PRESENT = "FALSE"

C6_Witness ==
    /\ pc = "done"
    /\ fs.file = "written"
    /\ Doc.GDPR_PRESENT = "TRUE"
    /\ navExc = "evaluate failed"
    /\ examined = << 1, 2 >>

(* C7, as stated: at every point the event sequence is the observers' events for
   the delivered messages, in delivery order, followed by at most one
   navigation_error event. *)
C7_NavigationErrorLast ==
    \/ console_errors = ObservedEvents(delivered)
    \/ /\ navExc # "none"
       /\ console_errors =
             Append(ObservedEvents(delivered), NavigationErrorEvent(navExc))

C7_EventsInOrder ==
    /\ SelectSeq(console_errors, IsObserved) = ObservedEvents(delivered)
    /\ Cardinality(NavEvents(console_errors)) <= 1
    /\ (NavEvents(console_errors) # { }) <=> (navExc # "none")

C7_AppendOnly ==
    /\ Len(console_errors') >= Len(console_errors)
    /\ SubSeq(console_errors', 1, Len(console_errors)) = console_errors

(* C7, amended: at every point the event sequence holds, in delivery order, one
   event per delivered console message of type error or warning (of that type) and
   one page_error event per delivered uncaught exception, and at most one
   navigation_error event, placed where the driver caught its exception: the
   observers' events delivered afterwards, while cleanup closes the page, follow
   it. Other console messages add nothing, and every step leaves the events
   already in the sequence as they are. *)
C7_EventsInOrderAppendOnly == [](C7_EventsInOrder) /\ [][C7_AppendOnly]_vars

C7_Witness ==
    /\ pc = "done"
    /\ fs.file = "written"
    /\ Doc.total_errors = 4
    /\ Doc.GDPR_PRESENT = "FALSE"
    /\ TypeCount(Doc.errors, "error") = 3
    /\ TypeCount(Doc.errors, "warning") = 1

StripLeading(s, p) ==
    IF StartsWith(s, p) THEN SubSeq(s, Len(p) + 1, Len(s)) ELSE s

(* C8: the domain derived from the target URL is the URL's host component with a
   leading www. stripped, nothing else removed, and every ":" replaced by "_".
   Stated for the URLs that have a host, so a fortiori for every URL. *)
C8_DomainIsHostWithoutLeadingWww ==
    (pc = "url_done" /\ Netloc(site_url) # << >>) =>
        domain = Replace(StripLeading(Netloc(site_url), WWW), << ":" >>, << "_" >>)

(* C9: a configured value that starts with neither http:// nor https:// is
   loaded as https:// followed by the value, the prefix added once; a value that
   starts with one of them is loaded unchanged; normalising the loaded URL again
   changes nothing. *)
C9_ProtocolAddedOnce ==
    pc \in { "start_engine", "url_done" } =>
        LET v == Strip(env.value)
        IN  /\ (StartsWith(v, HTTP) \/ StartsWith(v, HTTPS)) => site_url = v
            /\ ~(StartsWith(v, HTTP) \/ StartsWith(v, HTTPS)) =>
                  /\ Len(site_url) = Len(v) + Len(HTTPS)
                  /\ SubSeq(site_url, 1, Len(HTTPS)) = HTTPS
                  /\ SubSeq(site_url, Len(HTTPS) + 1, Len(site_url)) = v
            /\ NormaliseUrl(site_url) = site_url

C9_Witness ==
    /\ pc = "url_done"
    /\ env.value = WWW \o << "a", ":" >>
    /\ site_url = HTTPS \o WWW \o << "a", ":" >>

(* C10: the resolver examines the candidates in list order, each once; a
   candidate that is not visible or whose check or click raises only moves the
   search on; the search ends at the first successful click, so at most one click
   succeeds; it returns true exactly when a click succeeded and false only after
   the whole list; no exception of a candidate reaches the driver. *)
C10_ResolverOrderAndStop ==
    /\ examined = [i \in 1..Len(examined) |-> i]
    /\ clicks <= 1
    /\ pc \in { "is_visible", "click" } =>
          /\ resolver = "none" /\ clicks = 0 /\ navExc = "none"
          /\ sel \in 1..NumSelectors
          /\ Len(examined) = IF pc = "click" THEN sel ELSE sel - 1
    /\ (resolver = "true") <=> (clicks = 1)
    /\ resolver = "true" => Len(examined) = sel
    /\ resolver = "false" => clicks = 0 /\ Len(examined) = NumSelectors
    /\ (sel >= 1 /\ pc \notin { "is_visible", "click" }) => resolver # "none"

C10_Witness ==
    /\ resolver = "true"
    /\ examined = << 1, 2 >>
    /\ clicks = 1
    /\ pc = "done"

====
